---- MODULE Spec2Model ----
(***************************************************************************)
(* gocp: recursive multi-threaded folder copier (gocp.go).                 *)
(*                                                                         *)
(* The model follows main() statement by statement: source check, target   *)
(* creation, scan (getFilesAndDir), partitioning (chunkArray), the folder  *)
(* pool with its deferred Stop, the folder submit loop, the progress bar,  *)
(* the copy pool, the copy submit loop, poolCopy.Stop and the deferred     *)
(* poolFolder.Stop.  Pool workers are separate processes.                  *)
(*                                                                         *)
(* Paths are sequences of path components ("src/a/1.txt" is                *)
(* <<"src","a","1.txt">>, "./src" is <<".","src">>).                       *)
(***************************************************************************)
EXTENDS Integers, Sequences, FiniteSets, TLC

\* ------------------------------------------------------------------ bounds
MaxThreads == 3   \* -mt values explored: 1..MaxThreads
MaxLen == 4       \* longest list handed to chunkArray on its own
MaxSpin == 1      \* iterations a non-advancing chunkArray loop is followed
                  \* beyond the length of its input
MaxFairTree == 5  \* entries of the largest tree of the runs checked for
                  \* liveness
MaxFairThreads == 2   \* -mt values of the runs checked for liveness

\* ------------------------------------------------------------- path helpers
RECURSIVE Clean(_)
\* filepath.Clean on components: "." components are dropped, the empty
\* result is "."
Clean(p) ==
    LET RECURSIVE Strip(_)
        Strip(q) == IF q = <<>> THEN <<>>
                    ELSE IF Head(q) = "." THEN Strip(Tail(q))
                    ELSE <<Head(q)>> \o Strip(Tail(q))
        r == Strip(p)
    IN IF r = <<>> THEN <<".">> ELSE r

\* filepath.Join(a, b) == Clean(a + "/" + b)
Join(a, b) == Clean(a \o b)

RECURSIVE Dots(_)
Dots(n) == IF n = 0 THEN <<>> ELSE <<"..">> \o Dots(n - 1)

RECURSIVE CommonLen(_, _)
CommonLen(a, b) ==
    IF a = <<>> \/ b = <<>> \/ Head(a) # Head(b) THEN 0
    ELSE 1 + CommonLen(Tail(a), Tail(b))

\* filepath.Rel(base, targ): both cleaned, the common prefix dropped, one
\* ".." for each component left in base, "." when the two are the same
Rel(base, targ) ==
    LET b == IF Clean(base) = <<".">> THEN <<>> ELSE Clean(base)
        t == IF Clean(targ) = <<".">> THEN <<>> ELSE Clean(targ)
        k == CommonLen(b, t)
        r == Dots(Len(b) - k) \o SubSeq(t, k + 1, Len(t))
    IN IF r = <<>> THEN <<".">> ELSE r

\* strings.Replace(s, old, "", 1): the first occurrence of old is removed,
\* s is returned unchanged when old does not occur
StringsReplace(s, old) ==
    LET hits == {i \in 1..(Len(s) - Len(old) + 1) :
                    SubSeq(s, i, i + Len(old) - 1) = old}
    IN IF hits = {} THEN s
       ELSE LET i == CHOOSE j \in hits : \A h \in hits : j <= h
            IN SubSeq(s, 1, i - 1) \o SubSeq(s, i + Len(old), Len(s))

Parent(p) == SubSeq(p, 1, Len(p) - 1)

Prefixes(p) == {SubSeq(p, 1, k) : k \in 1..Len(p)}

\* os.MkdirAll(path): the directory and every missing ancestor
MkdirAll(dirs, path) == dirs \cup Prefixes(path)

\* ------------------------------------------------------------- the inputs
\* -t argument
targetPath == <<"tgt">>

\* spellings of the -s argument (README: "-s ./src")
SourceSpellings == {<<"src">>, <<".", "src">>}

\* The source tree in filepath.WalkDir order (pre-order, names sorted):
\* src, src/a, src/a/1.txt (10 bytes), src/a/b, src/a/b/2.txt (5 bytes),
\* src/c, src/c/3.txt (0 bytes).  rel is the path below the root.
MasterWalk ==
    << [rel |-> <<>>,               isDir |-> TRUE,  size |-> 0],
       [rel |-> <<"a">>,            isDir |-> TRUE,  size |-> 0],
       [rel |-> <<"a", "1.txt">>,   isDir |-> FALSE, size |-> 10],
       [rel |-> <<"a", "b">>,       isDir |-> TRUE,  size |-> 0],
       [rel |-> <<"a", "b", "2.txt">>, isDir |-> FALSE, size |-> 5],
       [rel |-> <<"c">>,            isDir |-> TRUE,  size |-> 0],
       [rel |-> <<"c", "3.txt">>,   isDir |-> FALSE, size |-> 0] >>

\* every prefix of a pre-order walk is a tree; the empty one is a source
\* path that does not exist
Trees == {SubSeq(MasterWalk, 1, n) : n \in 0..Len(MasterWalk)}

\* path WalkDir hands to the callback: the root as given, every other
\* entry as Join(parent, name)
WalkPath(root, rel) == IF rel = <<>> THEN root ELSE Join(root, rel)

\* ---------------------------------------------------------- getFilesAndDir
\* One callback invocation per entry.  failAt = 0: no error.  failAt = k:
\* the k-th entry fails (ReadDir error for a directory, reported by a second
\* callback with err != nil; Info error for a file) and the walk stops there.
RECURSIVE WalkFrom(_, _, _, _, _)
WalkFrom(root, walk, k, failAt, acc) ==
    IF k > Len(walk) THEN acc
    ELSE LET e == walk[k]
             p == WalkPath(root, e.rel)
         IN IF e.isDir
            THEN LET a1 == [acc EXCEPT !.directories = Append(@, p)]
                 IN IF failAt = k THEN [a1 EXCEPT !.err = TRUE]
                    ELSE WalkFrom(root, walk, k + 1, failAt, a1)
            ELSE LET a1 == [acc EXCEPT !.filesCount = @ + 1]
                 IN IF failAt = k THEN [a1 EXCEPT !.err = TRUE]
                    ELSE WalkFrom(root, walk, k + 1, failAt,
                                  [a1 EXCEPT !.totalSize = @ + e.size,
                                             !.files = Append(@, p)])

getFilesAndDir(root, walk, failAt) ==
    WalkFrom(root, walk, 1, failAt,
             [filesCount |-> 0, totalSize |-> 0,
              directories |-> <<>>, files |-> <<>>, err |-> FALSE])

\* -------------------------------------------------------------- chunk size
\* math.Round of the rational num/den (half away from zero, num, den >= 0)
MathRound(num, den) == (2 * num + den) \div (2 * den)

\* int(math.Round(float64(count / uint64(threads)))): the division is the
\* unsigned integer division, the rounding is applied to its result
ChunkSizeOf(count, nthreads) == MathRound(count \div nthreads, 1)


\* ---------------------------------------------------------------- the state
VARIABLES
    sourcePath,      \* -s argument
    threads,         \* -mt argument (> 0, line 55)
    tree,            \* the source tree in walk order; <<>>: no such path
    failAt,          \* entry of the walk that fails (0: none); the walk
                     \* stops there, so it is the last entry of tree
    gone,            \* source files removed between the scan and the copy
    blocked,         \* target directories that cannot be created
    pc,              \* main's position
    tgtDirs,         \* directories of the target file system
    tgtFiles,        \* files of the target file system: path -> content
    totalFileCount, totalSize, folders, files, scanErr,   \* line 85
    entities, chunkSize, ci, chunks,                      \* chunkArray locals
    folderChunks, fileChunks,                             \* lines 94, 124
    fi,              \* index of the range loops of lines 102 and 129
    mpos,            \* position of main inside a synchronous fallback chunk
    err,             \* result of the last Submit
    workers,         \* pool -> its goroutines (they carry no identity):
                     \*   init: started, not yet at the receive
                     \*   recv: blocked in the receive
                     \*   run:  the tasks being run, [chunk, pos]
                     \*   done: returned (wg.Done)
    closed,          \* pool -> close(pool.tasks) has run
    stopped,         \* pool -> Stop() has returned
    barTotal,        \* barMain total (-1: no bar yet)
    completed,       \* barMain current
    byWorker,        \* pool -> chunk -> times a worker received its task
    byMain,          \* pool -> chunk -> times main began it itself
    dones            \* pool -> chunk -> executions of the chunk finished

vars == <<sourcePath, threads, tree, failAt, gone, blocked, pc, tgtDirs, tgtFiles,
          totalFileCount, totalSize, folders, files, scanErr,
          entities, chunkSize, ci, chunks, folderChunks, fileChunks,
          fi, mpos, err, workers, closed, stopped, barTotal, completed,
          byWorker, byMain, dones>>

inputs == <<sourcePath, threads, tree, failAt, gone, blocked>>
scanned == <<totalFileCount, totalSize, folders, files, scanErr>>
chunkVars == <<entities, chunkSize, ci, chunks>>
fsVars == <<tgtDirs, tgtFiles>>
poolVars == <<workers, closed, stopped>>
barVars == <<barTotal, completed>>
ghost == <<byWorker, byMain, dones>>

Pools == {"folder", "copy"}

NoWorkers == [init |-> 0, recv |-> 0, run |-> {}, done |-> 0]

ChunksOf(p) == IF p = "folder" THEN folderChunks ELSE fileChunks

\* the source file that may be removed after the scan has listed it: the
\* first file of the walk
GoneChoices(root, walk) ==
    LET fs == {j \in 1..Len(walk) : ~walk[j].isDir}
    IN {{}} \cup {{WalkPath(root, walk[k].rel)} :
                    k \in {j \in fs : \A i \in fs : j <= i}}

\* the directory whose creation may fail: the first one below the target root
BlockedChoices(walk) ==
    LET ds == {j \in 2..Len(walk) : walk[j].isDir}
    IN {{}} \cup {{targetPath \o walk[k].rel} :
                    k \in {j \in ds : \A i \in ds : j <= i}}

\* a run has at most one of the three faults, and a faulty run names its
\* source by the clean path
OneFault(root, f, g, b) ==
    LET n == (IF f # 0 THEN 1 ELSE 0) + (IF g # {} THEN 1 ELSE 0)
                 + (IF b # {} THEN 1 ELSE 0)
    IN n <= 1 /\ (n = 1 => root = <<"src">>)

\* the state before main runs
Init ==
    /\ sourcePath \in SourceSpellings
    /\ threads \in 1..MaxThreads
    /\ tree \in Trees
    /\ failAt \in {0, Len(tree)}
    /\ gone \in GoneChoices(sourcePath, tree)
    /\ blocked \in BlockedChoices(tree)
    /\ OneFault(sourcePath, failAt, gone, blocked)
    /\ pc = "stat"
    /\ tgtDirs = {}
    /\ tgtFiles = [x \in {} |-> 0]
    /\ totalFileCount = 0 /\ totalSize = 0
    /\ folders = <<>> /\ files = <<>> /\ scanErr = FALSE
    /\ entities = <<>> /\ chunkSize = 0 /\ ci = 0 /\ chunks = <<>>
    /\ folderChunks = <<>> /\ fileChunks = <<>>
    /\ fi = 0 /\ mpos = 0 /\ err = "none"
    /\ workers = [p \in Pools |-> NoWorkers]
    /\ closed = [p \in Pools |-> FALSE]
    /\ stopped = [p \in Pools |-> FALSE]
    /\ barTotal = -1 /\ completed = 0
    /\ byWorker = [p \in Pools |-> <<>>]
    /\ byMain = [p \in Pools |-> <<>>]
    /\ dones = [p \in Pools |-> <<>>]

\* ------------------------------------------------------- main, lines 70-94
\* (a check of the source that is never taken)
SourceMissingIgnored == FALSE

\* os.IsNotExist(err) of os.Stat(sourcePath)
SourceMissing == tree = <<>>

\* os.Stat(sourcePath): the source does not exist, main returns
CheckSource ==
    /\ pc = "stat"
    /\ pc' = IF SourceMissing THEN "abort" ELSE "mktarget"
    /\ UNCHANGED <<inputs, fsVars, scanned, chunkVars, folderChunks,
                   fileChunks, fi, mpos, err, poolVars, barVars, ghost>>

\* os.MkdirAll(targetPath) when the target does not exist
MakeTarget ==
    /\ pc = "mktarget"
    /\ tgtDirs' = IF targetPath \in tgtDirs THEN tgtDirs
                  ELSE MkdirAll(tgtDirs, targetPath)
    /\ pc' = "scan"
    /\ UNCHANGED <<inputs, tgtFiles, scanned, chunkVars, folderChunks,
                   fileChunks, fi, mpos, err, poolVars, barVars, ghost>>

\* totalFileCount, totalSize, folders, files := getFilesAndDir(sourcePath);
\* an error of the walk is printed and the four results are returned
Scan ==
    /\ pc = "scan"
    /\ LET r == getFilesAndDir(sourcePath, tree, failAt)
       IN /\ totalFileCount' = r.filesCount
          /\ totalSize' = r.totalSize
          /\ folders' = r.directories
          /\ files' = r.files
          /\ scanErr' = r.err
    /\ pc' = "folderSplit"
    /\ UNCHANGED <<inputs, fsVars, chunkVars, folderChunks, fileChunks,
                   fi, mpos, err, poolVars, barVars, ghost>>

\* lines 93-94: folderChunkSize and the call of chunkArray(folders, ...)
FolderSplit ==
    /\ pc = "folderSplit"
    /\ entities' = folders
    /\ chunkSize' = ChunkSizeOf(Len(folders), threads)
    /\ ci' = 0
    /\ chunks' = <<>>
    /\ pc' = "chunkFolders"
    /\ UNCHANGED <<inputs, fsVars, scanned, folderChunks, fileChunks,
                   fi, mpos, err, poolVars, barVars, ghost>>

\* --------------------------------------------------------------- chunkArray
InChunkArray == pc \in {"chunkFolders", "chunkFiles", "chunkOnly"}

\* (an end that reaches one entry into the next chunk)
MinOvershoot(a, b) == IF a < b THEN a + 1 ELSE b

\* end > len(entities) clamps end
Min(a, b) == IF a < b THEN a ELSE b

\* for i := 0; i < len(entities); i += chunkSize: the loop test
LoopTest(i) == i < Len(entities)

\* one iteration: end is clamped to len(entities), entities[i:end] is
\* appended, i += chunkSize.  A loop that does not advance i is followed
\* for MaxSpin iterations beyond len(entities).
ChunkArrayStep ==
    /\ InChunkArray
    /\ LoopTest(ci)
    /\ Len(chunks) < Len(entities) + MaxSpin
    /\ LET end == Min(ci + chunkSize, Len(entities))
       IN chunks' = Append(chunks, SubSeq(entities, ci + 1, end))
    /\ ci' = ci + chunkSize
    /\ UNCHANGED <<inputs, pc, fsVars, scanned, entities, chunkSize,
                   folderChunks, fileChunks, fi, mpos, err, poolVars,
                   barVars, ghost>>

\* return chunks
ChunkArrayReturn ==
    /\ InChunkArray
    /\ ~LoopTest(ci)
    /\ folderChunks' = IF pc = "chunkFolders" THEN chunks ELSE folderChunks
    /\ fileChunks' = IF pc = "chunkFiles" THEN chunks ELSE fileChunks
    /\ pc' = IF pc = "chunkFolders" THEN "newPoolFolder"
             ELSE IF pc = "chunkFiles" THEN "newPoolCopy"
             ELSE "returned"
    /\ UNCHANGED <<inputs, fsVars, scanned, chunkVars, fi, mpos, err,
                   poolVars, barVars, ghost>>

\* ------------------------------------------------- createFolders, copyFiles
\* os.MkdirAll(path) where some directory cannot be created: the ancestors
\* above the first such directory of the chain are made, then the call fails
osMkdirAll(dirs, path) ==
    LET bad == {k \in 1..Len(path) :
                  SubSeq(path, 1, k) \in blocked /\ SubSeq(path, 1, k) \notin dirs}
    IN IF bad = {} THEN MkdirAll(dirs, path)
       ELSE LET k0 == CHOOSE k \in bad : \A j \in bad : k <= j
            IN MkdirAll(dirs, SubSeq(path, 1, k0 - 1))

\* datFolder of createFolders: filepath.Rel, filepath.Join
DestFolder(folder) == Join(targetPath, Rel(sourcePath, folder))

\* one iteration of createFolders: filepath.Rel, filepath.Join, os.MkdirAll
createFolder(dirs, folder) == osMkdirAll(dirs, DestFolder(folder))

\* os.MkdirAll returned an error in that iteration
createFolderFails(dirs, folder) ==
    DestFolder(folder) \notin osMkdirAll(dirs, DestFolder(folder))

\* (an error that ends the loop over the chunk)
LoopEndsOnErrorReturn(failed) == failed

\* "if err != nil { fmt.Printf(...) }" in createFolders and copyFiles: the
\* error is printed and the loop goes on
LoopEndsOnError(failed) == FALSE

\* destFile of copyFiles: strings.Replace(file, sourcePath, "", 1) joined
\* onto targetPath
DestFile(file) == Join(targetPath, StringsReplace(file, sourcePath))

SourceFiles ==
    {k \in 1..Len(tree) : ~tree[k].isDir}

\* os.Open(src) succeeds: src is a file of the source tree and still there
OpenOK(src) ==
    /\ \E k \in SourceFiles : WalkPath(sourcePath, tree[k].rel) = src
    /\ src \notin gone

ContentOf(src) ==
    LET k == CHOOSE j \in SourceFiles : WalkPath(sourcePath, tree[j].rel) = src
    IN tree[k].size

\* os.Create(dst) succeeds: the parent directory exists and dst is no
\* directory
CreateOK(dirs, dst) == Parent(dst) \in dirs /\ dst \notin dirs

\* copyFile(src, dst): the target files afterwards; an error leaves them as
\* they were
copyFile(dirs, tfiles, src, dst) ==
    IF OpenOK(src) /\ CreateOK(dirs, dst)
    THEN (dst :> ContentOf(src)) @@ tfiles
    ELSE tfiles

\* copyFile returned an error
copyFileFails(dirs, src, dst) == ~(OpenOK(src) /\ CreateOK(dirs, dst))

\* ------------------------------------------------------------- ThreadPool
\* NewThreadPool(numWorkers): numWorkers goroutines started, none of them
\* yet at its receive
NewThreadPool(numWorkers) == [NoWorkers EXCEPT !.init = numWorkers]

\* number of goroutines blocked in "for task := range pool.tasks"
Receivers(p) == workers[p].recv

\* (a Stop without its wg.Wait)
AllExitedNoWait(p) == TRUE

\* wg.Wait() returns: every goroutine has run its deferred wg.Done()
AllExited(p) ==
    workers[p].init = 0 /\ workers[p].recv = 0 /\ workers[p].run = {}

\* (a fallback that does not look at the result of Submit)
SyncFallbackAlways(e) == TRUE

\* "if err != nil" after Submit
SyncFallback(e) == e # "nil"

Bump(seq, c, n) == [seq EXCEPT ![c] = @ + n]

\* (the send as a channel with a free buffer slot would take it)
SubmitResultBuffered(p) ==
    IF closed[p] THEN "panic" ELSE "nil"

\* pool.Submit: select { case pool.tasks <- task: return nil
\*                       default: return ErrTaskQueueFull }
\* The channel has no buffer: the send case is ready only when a goroutine
\* is blocked in its receive.  A send on a closed channel panics.
SubmitResult(p) ==
    IF closed[p] THEN "panic"
    ELSE IF Receivers(p) > 0 THEN "nil"
    ELSE "full"

\* pool.Submit(task) for chunk c followed by the caller's "if err != nil"
SubmitChunk(p, c, loopPc, syncPc) ==
    /\ err' = SubmitResult(p)
    /\ workers' = IF err' = "nil" /\ Receivers(p) > 0
                  THEN [workers EXCEPT
                          ![p].recv = @ - 1,
                          ![p].run = @ \cup {[chunk |-> c, pos |-> 1]}]
                  ELSE workers
    /\ byWorker' = [byWorker EXCEPT
                      ![p] = Bump(@, c, IF err' = "nil" /\ Receivers(p) > 0
                                        THEN 1 ELSE 0)]
    /\ byMain' = [byMain EXCEPT
                    ![p] = Bump(@, c, IF SyncFallback(err') THEN 1 ELSE 0)]
    /\ pc' = IF err' = "panic" THEN "panic"
             ELSE IF SyncFallback(err') THEN syncPc ELSE loopPc
    /\ fi' = IF SyncFallback(err') THEN fi ELSE fi + 1
    /\ mpos' = IF SyncFallback(err') THEN 1 ELSE mpos

\* a goroutine reaches its range loop and blocks in the receive
WorkerReady(p) ==
    /\ workers[p].init > 0
    /\ workers' = [workers EXCEPT ![p].init = @ - 1, ![p].recv = @ + 1]
    /\ UNCHANGED <<inputs, pc, fsVars, scanned, chunkVars, folderChunks,
                   fileChunks, fi, mpos, err, closed, stopped, barVars, ghost>>

\* the receive on the closed channel ends the range loop: wg.Done()
WorkerExit(p) ==
    /\ workers[p].recv > 0
    /\ closed[p]
    /\ workers' = [workers EXCEPT ![p].recv = @ - 1, ![p].done = @ + 1]
    /\ UNCHANGED <<inputs, pc, fsVars, scanned, chunkVars, folderChunks,
                   fileChunks, fi, mpos, err, closed, stopped, barVars, ghost>>

\* the worker running task t after item t.pos: next item, or task() returns
\* and the worker is back at the receive
AfterItem(p, t, failed) ==
    LET last == t.pos >= Len(ChunksOf(p)[t.chunk]) \/ LoopEndsOnError(failed)
    IN /\ workers' = IF last
                     THEN [workers EXCEPT ![p].run = @ \ {t},
                                          ![p].recv = @ + 1]
                     ELSE [workers EXCEPT
                             ![p].run = (@ \ {t}) \cup {[t EXCEPT !.pos = @ + 1]}]
       /\ dones' = [dones EXCEPT
                      ![p] = Bump(@, t.chunk, IF last THEN 1 ELSE 0)]

\* a folder worker runs one iteration of createFolders of its task
FolderWorkerStep(t) ==
    /\ t \in workers["folder"].run
    /\ LET ch == folderChunks[t.chunk]
       IN tgtDirs' = IF t.pos <= Len(ch) THEN createFolder(tgtDirs, ch[t.pos])
                     ELSE tgtDirs
    /\ LET ch == folderChunks[t.chunk]
       IN AfterItem("folder", t, t.pos <= Len(ch)
                                  /\ createFolderFails(tgtDirs, ch[t.pos]))
    /\ UNCHANGED <<inputs, pc, tgtFiles, scanned, chunkVars, folderChunks,
                   fileChunks, fi, mpos, err, closed, stopped, barVars, byWorker, byMain>>

\* a copy worker runs one iteration of copyFiles of its task: copyFile,
\* then barMain.Increment()
CopyWorkerStep(t) ==
    /\ t \in workers["copy"].run
    /\ LET ch == fileChunks[t.chunk]
       IN IF t.pos <= Len(ch)
          THEN /\ tgtFiles' = copyFile(tgtDirs, tgtFiles, ch[t.pos],
                                       DestFile(ch[t.pos]))
               /\ completed' = completed + 1
          ELSE UNCHANGED <<tgtFiles, completed>>
    /\ LET ch == fileChunks[t.chunk]
       IN AfterItem("copy", t, t.pos <= Len(ch)
                                /\ copyFileFails(tgtDirs, ch[t.pos],
                                                 DestFile(ch[t.pos])))
    /\ UNCHANGED <<inputs, pc, tgtDirs, scanned, chunkVars, folderChunks,
                   fileChunks, fi, mpos, err, closed, stopped, barTotal, byWorker, byMain>>

\* ------------------------------------------------------ main, lines 96-113
NewPoolFolder ==
    /\ pc = "newPoolFolder"
    /\ workers' = [workers EXCEPT !["folder"] = NewThreadPool(Len(folderChunks))]
    /\ byWorker' = [byWorker EXCEPT !["folder"] = [c \in 1..Len(folderChunks) |-> 0]]
    /\ byMain' = [byMain EXCEPT !["folder"] = [c \in 1..Len(folderChunks) |-> 0]]
    /\ dones' = [dones EXCEPT !["folder"] = [c \in 1..Len(folderChunks) |-> 0]]
    /\ fi' = 1
    /\ pc' = "folderLoop"
    /\ UNCHANGED <<inputs, fsVars, scanned, chunkVars, folderChunks,
                   fileChunks, mpos, err, closed, stopped, barVars>>

\* poolFolder.Submit of the next folder chunk
FolderSubmit ==
    /\ pc = "folderLoop"
    /\ fi <= Len(folderChunks)
    /\ SubmitChunk("folder", fi, "folderLoop", "folderSync")
    /\ UNCHANGED <<inputs, fsVars, scanned, chunkVars, folderChunks,
                   fileChunks, closed, stopped, barVars, dones>>

\* main after item mpos of the chunk it runs itself
AfterSyncItem(p, loopPc, failed) ==
    LET last == mpos >= Len(ChunksOf(p)[fi]) \/ LoopEndsOnError(failed)
    IN /\ mpos' = IF last THEN 0 ELSE mpos + 1
       /\ fi' = IF last THEN fi + 1 ELSE fi
       /\ pc' = IF last THEN loopPc ELSE pc
       /\ dones' = [dones EXCEPT ![p] = Bump(@, fi, IF last THEN 1 ELSE 0)]

\* Submit failed: time.Sleep, then createFolders on main, one iteration
FolderSyncStep ==
    /\ pc = "folderSync"
    /\ LET ch == folderChunks[fi]
       IN tgtDirs' = IF mpos <= Len(ch) THEN createFolder(tgtDirs, ch[mpos])
                     ELSE tgtDirs
    /\ LET ch == folderChunks[fi]
       IN AfterSyncItem("folder", "folderLoop",
                        mpos <= Len(ch) /\ createFolderFails(tgtDirs, ch[mpos]))
    /\ UNCHANGED <<inputs, tgtFiles, scanned, chunkVars, folderChunks,
                   fileChunks, err, poolVars, barVars, byWorker, byMain>>

\* the range loop over folderChunks is over
FolderLoopExit ==
    /\ pc = "folderLoop"
    /\ fi > Len(folderChunks)
    /\ pc' = "barStart"
    /\ UNCHANGED <<inputs, fsVars, scanned, chunkVars, folderChunks,
                   fileChunks, fi, mpos, err, poolVars, barVars, ghost>>

\* ----------------------------------------------------- main, lines 115-146
\* barMain := pb.StartNew(int(totalFileCount))
BarStart ==
    /\ pc = "barStart"
    /\ barTotal' = totalFileCount
    /\ completed' = 0
    /\ pc' = "fileSplit"
    /\ UNCHANGED <<inputs, fsVars, scanned, chunkVars, folderChunks,
                   fileChunks, fi, mpos, err, poolVars, ghost>>

\* lines 123-124: fileChunkSize and the call of chunkArray(files, ...)
FileSplit ==
    /\ pc = "fileSplit"
    /\ entities' = files
    /\ chunkSize' = ChunkSizeOf(totalFileCount, threads)
    /\ ci' = 0
    /\ chunks' = <<>>
    /\ pc' = "chunkFiles"
    /\ UNCHANGED <<inputs, fsVars, scanned, folderChunks, fileChunks,
                   fi, mpos, err, poolVars, barVars, ghost>>

NewPoolCopy ==
    /\ pc = "newPoolCopy"
    /\ workers' = [workers EXCEPT !["copy"] = NewThreadPool(Len(fileChunks))]
    /\ byWorker' = [byWorker EXCEPT !["copy"] = [c \in 1..Len(fileChunks) |-> 0]]
    /\ byMain' = [byMain EXCEPT !["copy"] = [c \in 1..Len(fileChunks) |-> 0]]
    /\ dones' = [dones EXCEPT !["copy"] = [c \in 1..Len(fileChunks) |-> 0]]
    /\ fi' = 1
    /\ pc' = "copyLoop"
    /\ UNCHANGED <<inputs, fsVars, scanned, chunkVars, folderChunks,
                   fileChunks, mpos, err, closed, stopped, barVars>>

\* poolCopy.Submit of the next file chunk
CopySubmit ==
    /\ pc = "copyLoop"
    /\ fi <= Len(fileChunks)
    /\ SubmitChunk("copy", fi, "copyLoop", "copySync")
    /\ UNCHANGED <<inputs, fsVars, scanned, chunkVars, folderChunks,
                   fileChunks, closed, stopped, barVars, dones>>

\* Submit failed: time.Sleep, then copyFiles on main, one iteration
CopySyncStep ==
    /\ pc = "copySync"
    /\ LET ch == fileChunks[fi]
       IN IF mpos <= Len(ch)
          THEN /\ tgtFiles' = copyFile(tgtDirs, tgtFiles, ch[mpos],
                                       DestFile(ch[mpos]))
               /\ completed' = completed + 1
          ELSE UNCHANGED <<tgtFiles, completed>>
    /\ LET ch == fileChunks[fi]
       IN AfterSyncItem("copy", "copyLoop",
                        mpos <= Len(ch)
                        /\ copyFileFails(tgtDirs, ch[mpos], DestFile(ch[mpos])))
    /\ UNCHANGED <<inputs, tgtDirs, scanned, chunkVars, folderChunks,
                   fileChunks, err, poolVars, barTotal, byWorker, byMain>>

\* the range loop over fileChunks is over
CopyLoopExit ==
    /\ pc = "copyLoop"
    /\ fi > Len(fileChunks)
    /\ pc' = "stopCopy"
    /\ UNCHANGED <<inputs, fsVars, scanned, chunkVars, folderChunks,
                   fileChunks, fi, mpos, err, poolVars, barVars, ghost>>

\* where main calls p's Stop: poolCopy.Stop() at line 141, the deferred
\* poolFolder.Stop() when main returns
StopPc(p) == IF p = "copy" THEN "stopCopy" ELSE "stopFolder"
WaitPc(p) == IF p = "copy" THEN "waitCopy" ELSE "waitFolder"
\* (the copy pool stopped a second time, as by a deferred poolCopy.Stop())
AfterStopPcDouble(p) == IF p = "copy" THEN "stopCopy" ELSE "exit"
\* where main goes on when Stop has returned
AfterStopPc(p) == IF p = "copy" THEN "finish" ELSE "exit"

\* Stop, first statement: close(pool.tasks); closing a closed channel panics
StopClose(p) ==
    /\ pc = StopPc(p)
    /\ closed' = [closed EXCEPT ![p] = TRUE]
    /\ pc' = IF closed[p] THEN "panic" ELSE WaitPc(p)
    /\ UNCHANGED <<inputs, fsVars, scanned, chunkVars, folderChunks,
                   fileChunks, fi, mpos, err, workers, stopped, barVars, ghost>>

\* Stop, second statement: pool.wg.Wait() returns, and Stop with it
StopReturn(p) ==
    /\ pc = WaitPc(p)
    /\ AllExited(p)
    /\ stopped' = [stopped EXCEPT ![p] = TRUE]
    /\ pc' = AfterStopPc(p)
    /\ UNCHANGED <<inputs, fsVars, scanned, chunkVars, folderChunks,
                   fileChunks, fi, mpos, err, workers, closed, barVars, ghost>>

\* barMain.Finish() and the total elapsed time; main returns and its
\* deferred call runs
Finish ==
    /\ pc = "finish"
    /\ pc' = "stopFolder"
    /\ UNCHANGED <<inputs, fsVars, scanned, chunkVars, folderChunks,
                   fileChunks, fi, mpos, err, poolVars, barVars, ghost>>

\* ------------------------------------------------------- the specification
MainStep ==
    \/ CheckSource \/ MakeTarget \/ Scan \/ FolderSplit
    \/ ChunkArrayStep \/ ChunkArrayReturn
    \/ NewPoolFolder \/ FolderSubmit \/ FolderSyncStep \/ FolderLoopExit
    \/ BarStart \/ FileSplit
    \/ NewPoolCopy \/ CopySubmit \/ CopySyncStep \/ CopyLoopExit
    \/ Finish
    \/ \E p \in Pools : StopClose(p) \/ StopReturn(p)

WorkerStep ==
    \/ \E p \in Pools : WorkerReady(p) \/ WorkerExit(p)
    \/ \E t \in workers["folder"].run : FolderWorkerStep(t)
    \/ \E t \in workers["copy"].run : CopyWorkerStep(t)

Next == MainStep \/ WorkerStep

Spec == Init /\ [][Next]_vars

\* Runs over a readable tree named by its clean path, for the liveness of
\* Stop.  The Go scheduler runs every runnable goroutine, so a step is taken
\* as long as main or some worker can take one.
InitFair ==
    /\ Init
    /\ sourcePath = <<"src">>
    /\ failAt = 0
    /\ gone = {} /\ blocked = {}
    /\ Len(tree) <= MaxFairTree
    /\ threads <= MaxFairThreads

FairSpec == InitFair /\ [][Next]_vars /\ WF_vars(Next)

\* ------------------------------------------- chunkArray on arbitrary lists
ChunkItems == {<<"x">>, <<"y">>}

RECURSIVE ListsUpTo(_)
ListsUpTo(n) ==
    IF n = 0 THEN {<<>>}
    ELSE LET shorter == ListsUpTo(n - 1)
         IN shorter \cup {Append(l, x) : l \in {m \in shorter : Len(m) = n - 1},
                                         x \in ChunkItems}

\* a list and a worker count, nothing else
InitChunk ==
    /\ sourcePath = <<"src">>
    /\ threads \in 1..MaxThreads
    /\ tree = <<>>
    /\ failAt = 0
    /\ gone = {} /\ blocked = {}
    /\ pc = "chunkCall"
    /\ tgtDirs = {}
    /\ tgtFiles = [x \in {} |-> 0]
    /\ totalFileCount = 0 /\ totalSize = 0
    /\ folders = <<>> /\ files = <<>> /\ scanErr = FALSE
    /\ entities \in ListsUpTo(MaxLen)
    /\ chunkSize = 0 /\ ci = 0 /\ chunks = <<>>
    /\ folderChunks = <<>> /\ fileChunks = <<>>
    /\ fi = 0 /\ mpos = 0 /\ err = "none"
    /\ workers = [p \in Pools |-> NoWorkers]
    /\ closed = [p \in Pools |-> FALSE]
    /\ stopped = [p \in Pools |-> FALSE]
    /\ barTotal = -1 /\ completed = 0
    /\ byWorker = [p \in Pools |-> <<>>]
    /\ byMain = [p \in Pools |-> <<>>]
    /\ dones = [p \in Pools |-> <<>>]

\* the chunk size as main computes it (lines 93-94, 123-124) and the call
ChunkCall ==
    /\ pc = "chunkCall"
    /\ chunkSize' = ChunkSizeOf(Len(entities), threads)
    /\ ci' = 0
    /\ chunks' = <<>>
    /\ pc' = "chunkOnly"
    /\ UNCHANGED <<inputs, fsVars, scanned, entities, folderChunks,
                   fileChunks, fi, mpos, err, poolVars, barVars, ghost>>

NextChunk == ChunkCall \/ ChunkArrayStep \/ ChunkArrayReturn

SpecChunk == InitChunk /\ [][NextChunk]_vars


\* ================================================================== claims
RECURSIVE Flatten(_)
Flatten(seqs) == IF seqs = <<>> THEN <<>> ELSE Head(seqs) \o Flatten(Tail(seqs))

CeilDiv(a, b) == (a + b - 1) \div b

ChunkIds(p) == DOMAIN dones[p]

\* a task a folder worker has received and not yet finished
FolderTaskRunning == workers["folder"].run # {}

\* the step is a file copy (each copy, by a worker or by main, is followed
\* by barMain.Increment)
CopyHappens == completed' # completed

\* C1: no file copy of phase 2, by a copy worker or by main, begins before
\* the folder pool has drained: whenever a copy runs, no folder chunk the
\* folder pool accepted is still unfinished.
C1_PhaseBarrier == [][CopyHappens => ~FolderTaskRunning]_vars

\* C2: every chunk is executed exactly once: never begun twice (by a worker
\* and by main, or twice by either), and when main returns every chunk of
\* both phases has been begun once and has finished once.
C2_ExactlyOnce ==
    \A p \in Pools : \A c \in ChunkIds(p) :
        /\ byWorker[p][c] + byMain[p][c] <= 1
        /\ dones[p][c] <= byWorker[p][c] + byMain[p][c]
        /\ pc = "exit" =>
              /\ ChunkIds(p) = 1..Len(ChunksOf(p))
              /\ byWorker[p][c] + byMain[p][c] = 1
              /\ dones[p][c] = 1

\* C2 witness: a finished run in which one file chunk was run by a worker
\* and another one by main after a failed Submit
C2_Witness ==
    /\ pc = "exit"
    /\ \E c \in ChunkIds("copy") : byWorker["copy"][c] = 1 /\ dones["copy"][c] = 1
    /\ \E c \in ChunkIds("copy") : byMain["copy"][c] = 1 /\ dones["copy"][c] = 1
    /\ \E c \in ChunkIds("folder") : byMain["folder"][c] = 1

\* C3: completed <= total always, and completed = total once the copy
\* pool's Stop has returned (total is the scan's file count).
C3_Progress ==
    /\ barTotal >= 0 => completed <= barTotal
    /\ stopped["copy"] => completed = barTotal

\* C4: partitioning terminates and the chunks concatenate to the list.  The
\* loop of a partition into non-empty chunks makes at most Len(L)
\* iterations, so a loop that has made more never ends; the chunks returned
\* concatenate to L.
C4_PartitionTerminates ==
    /\ Len(chunks) <= Len(entities)
    /\ pc = "returned" => Flatten(chunks) = entities

\* C5: with a chunk size of 0 and a non-empty list the partitioner yields
\* the single chunk holding every entry.  The output is only appended to, so
\* whatever has been produced is already that chunk.
C5_ZeroSizeSingleChunk ==
    (pc \in {"chunkOnly", "returned"} /\ chunkSize = 0 /\ entities # <<>>
        /\ chunks # <<>>)
    => chunks = <<entities>>

\* C6: the chunk size is Len(L)/w rounded to the nearest integer, and with a
\* positive size there are ceil(Len(L)/size) chunks, all but the last of
\* exactly that size.
C6_RoundedChunkSize ==
    pc \in {"chunkOnly", "returned"} =>
        /\ chunkSize = MathRound(Len(entities), threads)
        /\ (pc = "returned" /\ chunkSize > 0) =>
              /\ Len(chunks) = CeilDiv(Len(entities), chunkSize)
              /\ \A k \in 1..(Len(chunks) - 1) : Len(chunks[k]) = chunkSize

LoopPc(p) == IF p = "folder" THEN "folderLoop" ELSE "copyLoop"
SyncPc(p) == IF p = "folder" THEN "folderSync" ELSE "copySync"

\* main is about to call p.Submit for chunk fi
AtSubmit(p) == pc = LoopPc(p) /\ fi <= Len(ChunksOf(p))

\* the step is main's call of p.Submit
SubmitStep(p) == AtSubmit(p) /\ (fi' # fi \/ pc' # pc)

\* C7: Submit never blocks (it can always be taken); on an open pool it
\* returns nil exactly when a worker is waiting in its receive, and the task
\* then goes to that worker; otherwise it returns ErrTaskQueueFull and no
\* worker and no queue holds the task: the pool is as it was.
C7_SubmitNonBlocking ==
    /\ [](AtSubmit("folder") => ENABLED FolderSubmit)
    /\ [](AtSubmit("copy") => ENABLED CopySubmit)
    /\ [][\A p \in Pools : SubmitStep(p) =>
          /\ ~closed[p]
          /\ err' \in {"nil", "full"}
          /\ (err' = "nil") <=> (workers[p].recv > 0)
          /\ err' = "nil" =>
                /\ workers'[p].recv = workers[p].recv - 1
                /\ workers'[p].run =
                      workers[p].run \cup {[chunk |-> fi, pos |-> 1]}
                /\ workers'[p].init = workers[p].init
          /\ err' = "full" => workers' = workers /\ pc' = SyncPc(p)]_vars

\* C7 witness: a Submit has just failed although the pool has workers, none
\* of them waiting (some not yet at the receive, some busy), after an
\* earlier Submit was handed to a worker
C7_Witness ==
    /\ pc = "copySync" /\ mpos = 1 /\ err = "full"
    /\ workers["copy"].init > 0
    /\ workers["copy"].run # {}
    /\ workers["copy"].recv = 0

\* C8: Stop closes the channel and returns only after every worker has
\* exited, so every task a worker received has finished when Stop has
\* returned; and once the channel is closed Stop does return.
C8_StopDrains ==
    /\ [](\A p \in Pools : stopped[p] =>
            /\ closed[p]
            /\ workers[p].init = 0 /\ workers[p].recv = 0
            /\ workers[p].run = {}
            /\ workers[p].done = Len(ChunksOf(p))
            /\ \A c \in ChunkIds(p) : byWorker[p][c] = 1 => dones[p][c] = 1)
    /\ \A p \in Pools : closed[p] ~> stopped[p]

\* C8 witness: the copy pool's Stop has returned after workers ran tasks
C8_Witness ==
    /\ stopped["copy"]
    /\ workers["copy"].done >= 2
    /\ \E c \in ChunkIds("copy") : byWorker["copy"][c] = 1

\* nothing of the target beyond the target directory itself
TargetUntouched == tgtDirs \subseteq {targetPath} /\ DOMAIN tgtFiles = {}

\* C9: after a failed scan no folder chunk and no file chunk is handed to a
\* worker or run by main, and nothing is created below the target.
C9_ScanFailureStops ==
    scanErr =>
        /\ TargetUntouched
        /\ \A p \in Pools : \A c \in ChunkIds(p) :
               byWorker[p][c] = 0 /\ byMain[p][c] = 0

\* C10: after a full run over an unchanged, readable source tree (named by
\* its clean path) with no directory that cannot be created, every file of
\* the source is in the target at the same relative path with the same
\* content.
C10_AllFilesCopied ==
    (pc = "exit" /\ ~scanErr /\ gone = {} /\ blocked = {}
        /\ sourcePath = <<"src">>) =>
        \A k \in SourceFiles :
            /\ targetPath \o tree[k].rel \in DOMAIN tgtFiles
            /\ tgtFiles[targetPath \o tree[k].rel] = tree[k].size

\* getFilesAndDir has returned to main
ScanReturned == pc \notin {"stat", "abort", "mktarget", "scan", "chunkCall"}

\* C19: whenever the scan has returned, with or without an error, the file
\* count it returned is the length of the file list it returned.
C19_CountMatchesList == ScanReturned => totalFileCount = Len(files)

\* C18: no chunk is submitted to a pool whose Stop has begun, Stop is never
\* begun on a pool that is already closed, and when main returns after its
\* loops both pools have been closed and waited for.
C18_PoolLifecycle ==
    /\ pc # "panic"
    /\ \A p \in Pools :
        /\ AtSubmit(p) => ~closed[p]
        /\ pc = StopPc(p) => ~closed[p]
        /\ stopped[p] => closed[p]
    /\ pc = "exit" => \A p \in Pools : closed[p] /\ stopped[p]

\* C18 witness: main has returned after submitting chunks to both pools
C18_Witness ==
    /\ pc = "exit"
    /\ \A p \in Pools : stopped[p] /\ ChunkIds(p) # {}

\* C13: when the source does not exist main returns at the check: the target
\* root is not created, nothing is scanned, no pool is made and no chunk is
\* formed or run.
C13_MissingSourceAborts ==
    tree = <<>> =>
        /\ pc \in {"stat", "abort"}
        /\ tgtDirs = {} /\ DOMAIN tgtFiles = {}
        /\ folders = <<>> /\ files = <<>> /\ totalFileCount = 0
        /\ folderChunks = <<>> /\ fileChunks = <<>>
        /\ \A p \in Pools : workers[p] = NoWorkers /\ ChunkIds(p) = {}

\* C13 witness: main has returned because the source does not exist
C13_Witness == tree = <<>> /\ pc = "abort"

\* goroutines of a pool, in whatever state
PoolSize(p) ==
    workers[p].init + workers[p].recv + Cardinality(workers[p].run)
        + workers[p].done

\* C12: a pool that has been created has exactly `threads` workers, and at
\* no time do more than `threads` workers of a pool run chunks.
C12_WorkerCount ==
    \A p \in Pools :
        /\ workers[p] # NoWorkers => PoolSize(p) = threads
        /\ Cardinality(workers[p].run) <= threads

\* C15: under fair scheduling a run whose source exists reaches main's
\* return: both chunkArray calls return, both submit loops end, both pools
\* are stopped and the progress bar is finished.
C15_MainTerminates ==
    (pc = "mktarget") ~> (pc = "exit" /\ \A p \in Pools : stopped[p])

\* the run of the scenario: the tree a/1.txt (10 bytes), a/b/2.txt (5 bytes),
\* c/3.txt (0 bytes), -mt 2, nothing failing
InScenario ==
    /\ tree = MasterWalk /\ threads = 2 /\ sourcePath = <<"src">>
    /\ failAt = 0 /\ gone = {} /\ blocked = {}

\* the target holds file rel with n bytes
TargetHas(rel, n) ==
    /\ targetPath \o rel \in DOMAIN tgtFiles
    /\ tgtFiles[targetPath \o rel] = n

\* C14: in the scenario the scan reports 3 files and 15 bytes, and when main
\* has returned the target holds a/1.txt, a/b/2.txt and c/3.txt with 10, 5
\* and 0 bytes and the progress bar has counted 3 files, whatever the
\* interleaving.  (The scan's folder count for this tree is 4, the root, a,
\* a/b and c; it is not part of this formula.)
C14_EndToEnd ==
    InScenario =>
        /\ ScanReturned => totalFileCount = 3 /\ totalSize = 15
        /\ pc = "exit" =>
            /\ TargetHas(<<"a", "1.txt">>, 10)
            /\ TargetHas(<<"a", "b", "2.txt">>, 5)
            /\ TargetHas(<<"c", "3.txt">>, 0)
            /\ completed = 3

NoDup(seq) == \A i, j \in 1..Len(seq) : i # j => seq[i] # seq[j]

\* no path is in two chunks of a phase, nor twice in a chunk
ChunksDisjoint ==
    /\ NoDup(Flatten(folderChunks))
    /\ NoDup(Flatten(fileChunks))
    /\ InChunkArray => NoDup(Flatten(chunks))

\* the executors at work on an entry of pool p's chunks: the workers that
\* hold a task, and main when it runs a chunk itself
Execs(p) ==
    {[who |-> "worker", chunk |-> t.chunk, item |-> ChunksOf(p)[t.chunk][t.pos]] :
        t \in {u \in workers[p].run : u.pos <= Len(ChunksOf(p)[u.chunk])}}
    \cup (IF pc = SyncPc(p) /\ mpos <= Len(ChunksOf(p)[fi])
          THEN {[who |-> "main", chunk |-> fi, item |-> ChunksOf(p)[fi][mpos]]}
          ELSE {})

\* the directories the pending os.MkdirAll for a folder would make: the
\* missing part of the chain
FolderCreates(folder) == createFolder(tgtDirs, folder) \ tgtDirs

\* two executors are about to make the same missing directory
SharedAncestor ==
    \E e1, e2 \in Execs("folder") :
        e1 # e2 /\ FolderCreates(e1.item) \cap FolderCreates(e2.item) # {}

C16_WitnessCopy == Cardinality(Execs("copy")) >= 2

\* no directory of the chain of path is one that cannot be created
Creatable(path) == \A k \in 1..Len(path) : SubSeq(path, 1, k) \notin blocked

\* C17: a directory that cannot be created stops neither its chunk nor the
\* others: when main has returned every folder chunk has run to its end,
\* every scanned folder whose chain can be created is in the target, and
\* the copy phase has run over every listed file.
C17_MkdirFailureIsolated ==
    pc = "exit" =>
        /\ \A c \in ChunkIds("folder") : dones["folder"][c] = 1
        /\ \A i \in 1..Len(folders) :
               Creatable(DestFolder(folders[i])) =>
                   DestFolder(folders[i]) \in tgtDirs
        /\ stopped["copy"] /\ completed = Len(files)

\* C17 witness: main has returned from a run in which a directory could not
\* be created, a later directory of the same chunk was created, and files
\* were copied
C17_Witness ==
    /\ pc = "exit" /\ blocked # {}
    /\ \E c \in 1..Len(folderChunks) :
         \E i, j \in 1..Len(folderChunks[c]) :
            /\ i < j
            /\ DestFolder(folderChunks[c][i]) \in blocked
            /\ DestFolder(folderChunks[c][i]) \notin tgtDirs
            /\ DestFolder(folderChunks[c][j]) \in tgtDirs
    /\ DOMAIN tgtFiles # {}

\* copyFile calls that returned an error: every call is counted by the
\* progress bar, every success leaves its own file in the target
FailedCopies == completed - Cardinality(DOMAIN tgtFiles)

\* C11: in a run where a copy has failed, when the copy pool's Stop has
\* returned every file chunk has run to its end, the progress bar has been
\* advanced once for every listed file, and it has reached its total.
C11_CopyFailureIsolated ==
    (stopped["copy"] /\ FailedCopies > 0) =>
        /\ \A c \in ChunkIds("copy") : dones["copy"][c] = 1
        /\ completed = Len(files)
        /\ completed = barTotal

====
